---- MODULE Spec2Model ----
(***************************************************************************)
(* LEvent: an event with priority-ordered delegates and a broadcast guard  *)
(* (LEvent.h), connections to it (Connection, ScopedConnection), and the   *)
(* enum-keyed Manager (LEventManager.h, listed in README.md).              *)
(*                                                                         *)
(* Objects live in small heaps: event objects, delegate objects and        *)
(* connection objects are numbered; 0 is the null reference.  A Trigger    *)
(* call is a frame on `stack`: while a frame is on top, the listener it    *)
(* invoked is running and may call any operation of the library.           *)
(***************************************************************************)
EXTENDS Integers, Sequences, FiniteSets, TLC

\* ------------------------------------------------------------- bounds
MaxDelegates == 3
MaxMgrDelegates == 2
MaxEvents == 3
MaxDepth == 2

Null == 0
EventIds == 1..MaxEvents
DelegateIds == 1..MaxDelegates

\* enum class EEvents of the showcase (Test is never declared there)
Ids == {"String", "Void"}

\* Priorities the callers pass.
Prios == {0, 1}

\* enum class EListenerType, the value a showcase listener returns
Free == 0
Member == 1
Callable == 2

\* Listeners are named by what they return: FreeListener and LambdaListener
\* are given to the event held directly, Functor (Callable) to the Manager.
Callees == {Free, Callable}

\* LEvent<SimpleDelegateFactory, EListenerType, std::string_view> StringEvent:
\* the event object the caller holds directly.
StringEvent == 1

\* The connection variables of the showcase's scope: Conn0 and Conn1 are
\* ScopedConnections, Conn2 is a Connection.
ConnIds == {"Conn0", "Conn1", "Conn2"}
ScopedIds == {"Conn0", "Conn1"}

\* One variable of each kind.
OneOfEach == {"Conn0", "Conn2"}
NoConnId == "-"

\* The two signatures declared in the showcase.
SigString == "EListenerType(string_view)"
SigVoid == "void(int&)"
Sigs == {SigString, SigVoid}

\* enum class EError
EError == {"OK", "EventAlreadyDefined", "FailedToMatchEventType",
           "ModifyingCallbackListDuringBroadcast", "CallbackAlreadyAdded",
           "EventsBlocked"}

VARIABLES
    Delegates,        \* event -> its vector of delegate pointers
    bIsBroadcasting,  \* event -> its flag
    evState,          \* event -> "free" | "alive": whether the object exists
    evSig,            \* event -> the signature it was instantiated with
    Priority,         \* delegate -> Delegate::Priority
    Callee,           \* delegate -> Delegate::Callee
    nDelegates,       \* delegates made so far by MakeDelegate
    Events,           \* Manager::Events: id -> event held by the slot, or Null
    bEventsBlocked,   \* Manager::bEventsBlocked
    conns,            \* connection objects
    stack,            \* Trigger calls in progress, innermost last
    crashed,          \* the process ended abnormally
    last              \* the call that made the latest step, and what it returned

vars == <<Delegates, bIsBroadcasting, evState, evSig, Priority, Callee,
          nDelegates, Events, bEventsBlocked, conns, stack, crashed, last>>

\* ------------------------------------------------------------- sequences
Range(s) == {s[k] : k \in 1..Len(s)}

\* std::ranges::find_if over s: the first of the indexes hits whose elements
\* satisfy the predicate, or Len(s) + 1 for end().
FindIf(s, hits) ==
    IF hits = {} THEN Len(s) + 1
    ELSE CHOOSE k \in hits : \A j \in hits : k <= j

\* std::vector::insert(it, x): x is placed before position k.
VecInsert(s, k, x) == SubSeq(s, 1, k - 1) \o <<x>> \o SubSeq(s, k, Len(s))

\* std::vector::erase(it)
VecErase(s, k) == SubSeq(s, 1, k - 1) \o SubSeq(s, k + 1, Len(s))

\* ------------------------------------------------------------- delegates
\* SimpleDelegateFactory::Delegate::operator==: "Can't compare
\* std::function's. Assume always different."
DelegateEq(a, b) == FALSE

\* Delegate::operator(): the callee's return value; callees return their own
\* number, as the showcase listeners return their EListenerType.
Invoke(d) == Callee[d]

\* InsertDelegate that takes every other delegate for a duplicate, whatever
\* AllowDuplicates says.
InsertDelegateOnlyOne(Ds, DelegatePtr, AllowDuplicates, Pr) ==
    IF Ds # <<>> THEN [ok |-> FALSE, seq |-> Ds]
    ELSE [ok |-> TRUE, seq |-> <<DelegatePtr>>]

\* InsertDelegate with the priority search left out: push_back.
InsertDelegateAppend(Ds, DelegatePtr, AllowDuplicates, Pr) ==
    [ok |-> TRUE, seq |-> Append(Ds, DelegatePtr)]

\* InsertDelegate searching with <= : a new delegate goes before its equals.
InsertDelegateBeforeEquals(Ds, DelegatePtr, AllowDuplicates, Pr) ==
    [ok |-> TRUE,
     seq |-> VecInsert(Ds, FindIf(Ds, {k \in 1..Len(Ds) : Pr[Ds[k]] <= Pr[DelegatePtr]}),
                       DelegatePtr)]

\* LEvent::InsertDelegate on the vector Ds, with Pr the priorities once the
\* new delegate exists.  [ok, seq]: the return value and the vector after.
InsertDelegate(Ds, DelegatePtr, AllowDuplicates, Pr) ==
    LET dup == FindIf(Ds, {k \in 1..Len(Ds) : DelegateEq(Ds[k], DelegatePtr)})
        InsertIt == FindIf(Ds, {k \in 1..Len(Ds) : Pr[Ds[k]] < Pr[DelegatePtr]})
    IN IF ~AllowDuplicates /\ dup # Len(Ds) + 1
       THEN [ok |-> FALSE, seq |-> Ds]
       ELSE [ok |-> TRUE, seq |-> VecInsert(Ds, InsertIt, DelegatePtr)]

\* EraseDelegate that erases the front element once the delegate is found.
EraseDelegateFront(Ds, DelegatePtr) ==
    LET FoundIt == FindIf(Ds, {k \in 1..Len(Ds) : Ds[k] = DelegatePtr})
    IN IF FoundIt # Len(Ds) + 1 THEN VecErase(Ds, 1) ELSE Ds

\* The find_if + erase of both RemoveListener overloads.
EraseDelegate(Ds, DelegatePtr) ==
    LET FoundIt == FindIf(Ds, {k \in 1..Len(Ds) : Ds[k] = DelegatePtr})
    IN IF FoundIt # Len(Ds) + 1 THEN VecErase(Ds, FoundIt) ELSE Ds

\* ------------------------------------------------------------- state
NoId == "-"

NoCall == [op |-> "none", id |-> NoId, d |-> Null, c |-> NoConnId,
           err |-> "-", ok |-> FALSE, Results |-> <<>>, fired |-> <<>>,
           snap |-> <<>>, intact |-> TRUE]

\* A connection variable that holds no object.
NoConn == [state |-> "free", Event |-> Null,
           Delegate |-> Null, bActive |-> FALSE, Error |-> "OK"]

\* Nothing declared, no listener, no connection.
Fresh ==
    [Delegates |-> [e \in EventIds |-> <<>>],
     bIsBroadcasting |-> [e \in EventIds |-> FALSE],
     evState |-> [e \in EventIds |-> IF e = StringEvent THEN "alive" ELSE "free"],
     evSig |-> [e \in EventIds |-> SigString],
     Priority |-> [d \in DelegateIds |-> 0],
     Callee |-> [d \in DelegateIds |-> Free],
     Events |-> [id \in Ids |-> Null],
     conns |-> [c \in ConnIds |-> NoConn]]

Init ==
    /\ Delegates = Fresh.Delegates
    /\ bIsBroadcasting = Fresh.bIsBroadcasting
    /\ evState = Fresh.evState
    /\ evSig = Fresh.evSig
    /\ Priority = Fresh.Priority
    /\ Callee = Fresh.Callee
    /\ nDelegates = 0
    /\ Events = Fresh.Events
    /\ bEventsBlocked = FALSE
    /\ conns = Fresh.conns
    /\ stack = <<>>
    /\ crashed = FALSE
    /\ last = NoCall

\* The process ends abnormally and its objects are gone with it.
Crash ==
    /\ crashed' = TRUE
    /\ Delegates' = Fresh.Delegates
    /\ bIsBroadcasting' = Fresh.bIsBroadcasting
    /\ evState' = Fresh.evState
    /\ evSig' = Fresh.evSig
    /\ Priority' = Fresh.Priority
    /\ Callee' = Fresh.Callee
    /\ nDelegates' = 0
    /\ Events' = Fresh.Events
    /\ bEventsBlocked' = FALSE
    /\ conns' = Fresh.conns
    /\ stack' = <<>>
    /\ last' = [NoCall EXCEPT !.op = "crash"]

\* The frames of the events in E lose their iterators: the vector they walk
\* was changed (insert and erase invalidate end()).
Invalidate(stk, E) ==
    [k \in DOMAIN stk |->
        IF stk[k].ev \in E THEN [stk[k] EXCEPT !.valid = FALSE] ELSE stk[k]]

\* The frames of the events in E are left with a dangling this: the event
\* was destroyed under them.
Dangle(stk, E) ==
    [k \in DOMAIN stk |->
        IF stk[k].ev \in E THEN [stk[k] EXCEPT !.valid = FALSE, !.ev = Null]
        ELSE stk[k]]

Iterating(e) == \E k \in DOMAIN stack : stack[k].ev = e

\* ------------------------------------------------------------- LEvent
\* LEvent::AddListener, both overloads: the delegate returned (Null for
\* nullptr), whether MakeDelegate ran, and the vector after the call.
AddListenerResult(e, Prio, AllowDuplicates) ==
    IF bIsBroadcasting[e]
    THEN [d |-> Null, made |-> FALSE, seq |-> Delegates[e]]
    ELSE LET DelegatePtr == nDelegates + 1
             Pr == [Priority EXCEPT ![DelegatePtr] = Prio]
             r == InsertDelegate(Delegates[e], DelegatePtr, AllowDuplicates, Pr)
         IN [d |-> IF r.ok THEN DelegatePtr ELSE Null, made |-> TRUE, seq |-> r.seq]

\* The heap after that call: MakeDelegate's object and the event's vector.
ApplyAdd(e, r, callee, Prio) ==
    /\ nDelegates' = IF r.made THEN nDelegates + 1 ELSE nDelegates
    /\ Priority' = IF r.made THEN [Priority EXCEPT ![nDelegates + 1] = Prio] ELSE Priority
    /\ Callee' = IF r.made THEN [Callee EXCEPT ![nDelegates + 1] = callee] ELSE Callee
    /\ Delegates' = [Delegates EXCEPT ![e] = r.seq]
    /\ stack' = IF r.seq # Delegates[e] THEN Invalidate(stack, {e}) ELSE stack

\* AddListener called on the event itself.
AddListener(e, callee, Prio, AllowDuplicates) ==
    /\ ~crashed
    /\ e = StringEvent
    /\ bIsBroadcasting[e] \/ nDelegates < MaxDelegates
    /\ LET r == AddListenerResult(e, Prio, AllowDuplicates)
       IN /\ ApplyAdd(e, r, callee, Prio)
          /\ last' = [NoCall EXCEPT !.op = "AddListener", !.d = r.d,
                                    !.ok = r.d # Null]
    /\ UNCHANGED <<bIsBroadcasting, evState, evSig, Events, bEventsBlocked, conns, crashed>>

\* EError LEvent::RemoveListener(std::shared_ptr<DelegateType>)
RemoveListener(e, DelegatePtr) ==
    /\ ~crashed
    /\ e = StringEvent
    /\ DelegatePtr \in 1..nDelegates
    /\ IF bIsBroadcasting[e]
       THEN /\ last' = [NoCall EXCEPT !.op = "RemoveListener",
                                      !.err = "ModifyingCallbackListDuringBroadcast"]
            /\ UNCHANGED <<Delegates, stack>>
       ELSE LET seq == EraseDelegate(Delegates[e], DelegatePtr)
            IN /\ Delegates' = [Delegates EXCEPT ![e] = seq]
               /\ stack' = IF seq # Delegates[e] THEN Invalidate(stack, {e}) ELSE stack
               /\ last' = [NoCall EXCEPT !.op = "RemoveListener",
                                         !.err = "OK", !.ok = seq # Delegates[e]]
    /\ UNCHANGED <<bIsBroadcasting, evState, evSig, Priority, Callee, nDelegates,
                   Events, bEventsBlocked, conns, crashed>>

\* The frame of a Trigger or TriggerComplex call that has entered its loop:
\* `it` is the position of the delegate being invoked and `end` the cached
\* end(); fired and snap record the delegates invoked and the vector at entry.
NewFrame(op, e, id) ==
    [op |-> op, ev |-> e, id |-> id, void |-> evSig[e] = SigVoid, it |-> 1,
     end |-> Len(Delegates[e]),
     valid |-> TRUE, Results |-> <<>>, fired |-> <<Delegates[e][1]>>,
     snap |-> Delegates[e]]

\* What the call returns to its caller; err is OK for the Manager's calls.
Returned(f, Results) ==
    [NoCall EXCEPT !.op = f.op, !.id = f.id, !.ok = TRUE,
                   !.err = IF f.id # NoId THEN "OK" ELSE "-",
                   !.Results = Results, !.fired = f.fired, !.snap = f.snap,
                   !.intact = f.valid]

\* A Trigger that reports an error when the event has no delegate.
BeginTriggerEmptyFails(op, e, id) ==
    IF Delegates[e] = <<>>
    THEN /\ bIsBroadcasting' = [bIsBroadcasting EXCEPT ![e] = FALSE]
         /\ stack' = stack
         /\ last' = [NoCall EXCEPT !.op = op, !.id = id, !.ok = FALSE,
                                   !.err = "FailedToMatchEventType"]
    ELSE /\ Len(stack) < MaxDepth
         /\ bIsBroadcasting' = [bIsBroadcasting EXCEPT ![e] = TRUE]
         /\ stack' = Append(stack, NewFrame(op, e, id))
         /\ last' = [NoCall EXCEPT !.op = "invoke"]

\* A Trigger whose flag is shared by all events.
BeginTriggerSharedFlag(op, e, id) ==
    IF Delegates[e] = <<>>
    THEN /\ bIsBroadcasting' = [b \in EventIds |-> FALSE]
         /\ stack' = stack
         /\ last' = [NoCall EXCEPT !.op = op, !.id = id, !.ok = TRUE,
                                   !.err = IF id # NoId THEN "OK" ELSE "-"]
    ELSE /\ Len(stack) < MaxDepth
         /\ bIsBroadcasting' = [b \in EventIds |-> TRUE]
         /\ stack' = Append(stack, NewFrame(op, e, id))
         /\ last' = [NoCall EXCEPT !.op = "invoke"]

\* Entry of LEvent::Trigger / TriggerComplex: set the flag; with no delegate
\* the loop body never runs, the flag is cleared and the call returns.
BeginTrigger(op, e, id) ==
    IF Delegates[e] = <<>>
    THEN /\ bIsBroadcasting' = [bIsBroadcasting EXCEPT ![e] = FALSE]
         /\ stack' = stack
         /\ last' = [NoCall EXCEPT !.op = op, !.id = id, !.ok = TRUE,
                                   !.err = IF id # NoId THEN "OK" ELSE "-"]
    ELSE /\ Len(stack) < MaxDepth
         /\ bIsBroadcasting' = [bIsBroadcasting EXCEPT ![e] = TRUE]
         /\ stack' = Append(stack, NewFrame(op, e, id))
         /\ last' = [NoCall EXCEPT !.op = "invoke"]

\* LEvent::Trigger and LEvent::TriggerComplex called on the event itself.
Trigger(e, op) ==
    /\ ~crashed
    /\ e = StringEvent
    /\ op \in {"Trigger", "TriggerComplex"}
    /\ BeginTrigger(op, e, NoId)
    /\ UNCHANGED <<Delegates, evState, evSig, Priority, Callee, nDelegates, Events,
                   bEventsBlocked, conns, crashed>>

\* std::set::insert as the showcase's adder uses it: Results is kept sorted
\* and free of repeats.
SetInsert(Results, v) ==
    IF v \in Range(Results) THEN Results
    ELSE VecInsert(Results, FindIf(Results, {k \in 1..Len(Results) : v < Results[k]}), v)

\* Results.push_back(r) / Adder(Results, r); a void signature collects nothing.
Collect(f, r) ==
    IF f.void THEN f.Results
    ELSE IF f.op \in {"TriggerComplex", "TriggerEventComplex"}
         THEN SetInsert(f.Results, r)
         ELSE Append(f.Results, r)

\* The running listener returns to the loop of the innermost Trigger, whose
\* iterators are intact: its result is collected, and the loop moves on to
\* the next delegate or ends, clearing the flag and returning.
ListenerReturn ==
    /\ ~crashed
    /\ stack # <<>>
    /\ LET n == Len(stack)
           f == stack[n]
           Results == Collect(f, Invoke(Delegates[f.ev][f.it]))
       IN /\ f.valid
          /\ IF f.it + 1 # f.end + 1
             THEN /\ stack' = [stack EXCEPT ![n] =
                                  [f EXCEPT !.it = f.it + 1, !.Results = Results,
                                            !.fired = Append(f.fired, Delegates[f.ev][f.it + 1])]]
                  /\ last' = [NoCall EXCEPT !.op = "invoke"]
                  /\ UNCHANGED bIsBroadcasting
             ELSE /\ stack' = SubSeq(stack, 1, n - 1)
                  /\ bIsBroadcasting' = [bIsBroadcasting EXCEPT ![f.ev] = FALSE]
                  /\ last' = Returned(f, Results)
    /\ UNCHANGED <<Delegates, evState, evSig, Priority, Callee, nDelegates, Events,
                   bEventsBlocked, conns, crashed>>

\* Results after the listeners of ds have returned in turn.
RECURSIVE CollectAll(_, _)
CollectAll(f, ds) ==
    IF ds = <<>> THEN f.Results
    ELSE CollectAll([f EXCEPT !.Results = Collect(f, Invoke(Head(ds)))], Tail(ds))

\* The same return when the frame's iterators were invalidated: continuing
\* the loop is undefined.  The build may crash; otherwise the loop runs on
\* until the advanced iterator meets the stale end(), at the latest, and
\* finds any delegate objects on its way.
ListenerReturnInvalid ==
    /\ ~crashed
    /\ stack # <<>>
    /\ LET n == Len(stack)
           f == stack[n]
       IN /\ ~f.valid
          /\ \/ Crash
             \/ \E k \in 0..(f.end - f.it) : \E more \in [1..k -> 1..nDelegates] :
                   LET g == [f EXCEPT !.fired = f.fired \o more]
                   IN /\ stack' = SubSeq(stack, 1, n - 1)
                      /\ bIsBroadcasting' =
                            IF f.ev = Null THEN bIsBroadcasting
                            ELSE [bIsBroadcasting EXCEPT ![f.ev] = FALSE]
                      /\ last' = Returned(g, CollectAll(f, <<f.fired[Len(f.fired)]>> \o more))
                      /\ UNCHANGED <<Delegates, evState, evSig, Priority, Callee,
                                     nDelegates, Events, bEventsBlocked, conns, crashed>>

\* Connection(EError) that drops the error it is given.
ConnectionErrDropped(InError) ==
    [state |-> "live", Event |-> Null, Delegate |-> Null,
     bActive |-> TRUE, Error |-> "OK"]

\* ------------------------------------------------------------- Connection
\* Connection(EError InError): bActive keeps its default member initializer.
ConnectionErr(InError) ==
    [state |-> "live", Event |-> Null, Delegate |-> Null,
     bActive |-> TRUE, Error |-> InError]

\* Connection(event, delegate) that keeps the event but not the delegate.
ConnectionOfNoDelegate(InEvent, InDelegate) ==
    [state |-> "live", Event |-> InEvent, Delegate |-> Null,
     bActive |-> FALSE, Error |-> "OK"]

\* Connection(std::shared_ptr<ILEvent>, std::shared_ptr<T>)
ConnectionOf(InEvent, InDelegate) ==
    [state |-> "live", Event |-> InEvent, Delegate |-> InDelegate,
     bActive |-> TRUE, Error |-> "OK"]

\* operator bool that looks at bActive only.
AsBoolActiveOnly(cn) == cn.bActive

\* explicit operator bool, IsActive, GetError
AsBool(cn) == cn.Event # Null /\ cn.bActive
IsActive(cn) == cn.bActive /\ cn.Error = "OK"
GetError(cn) == cn.Error

\* void LEvent::RemoveListener(Connection&): the event's vector after it.
RemoveListenerConn(e, cn) ==
    IF bIsBroadcasting[e] THEN Delegates[e]
    ELSE EraseDelegate(Delegates[e], cn.Delegate)

\* std::any_cast by value throws on an empty any.
BadAnyCast(cn) ==
    cn.Event # Null /\ cn.bActive /\ ~bIsBroadcasting[cn.Event] /\ cn.Delegate = Null

\* Connection::Disconnect: every event's vector after it.
DisconnectDelegates(cn) ==
    IF cn.Event # Null /\ cn.bActive
    THEN [Delegates EXCEPT ![cn.Event] = RemoveListenerConn(cn.Event, cn)]
    ELSE Delegates

\* Disconnect that forgets to clear bActive.
DisconnectedStaysActive(cn) == cn

\* Connection::Disconnect: the connection after it.
Disconnected(cn) == [cn EXCEPT !.bActive = FALSE]

\* Orphans when connections hold no reference to their event.
OrphansOfSlots(E, C) ==
    {e \in EventIds \ {StringEvent} :
        /\ evState[e] = "alive"
        /\ \A id \in Ids : E[id] # e}

\* The events no shared_ptr refers to any more, given slots E and connections C.
Orphans(E, C) ==
    {e \in EventIds \ {StringEvent} :
        /\ evState[e] = "alive"
        /\ \A id \in Ids : E[id] # e
        /\ \A c \in ConnIds : C[c].state = "live" => C[c].Event # e}

\* ~LEvent for the events in dead, on top of vectors D, states S and
\* signatures G; the memory of a destroyed event is free again.
Destroy(dead, D, S, G) ==
    /\ Delegates' = [e \in EventIds |-> IF e \in dead THEN <<>> ELSE D[e]]
    /\ bIsBroadcasting' = [e \in EventIds |-> IF e \in dead THEN FALSE ELSE bIsBroadcasting[e]]
    /\ evState' = [e \in EventIds |-> IF e \in dead THEN "free" ELSE S[e]]
    /\ evSig' = [e \in EventIds |-> IF e \in dead THEN SigString ELSE G[e]]
    /\ stack' = Dangle(Invalidate(stack, {e \in EventIds : D[e] # Delegates[e]}), dead)

FreeEvent == CHOOSE e \in EventIds : evState[e] = "free" /\ \A b \in EventIds : evState[b] = "free" => e <= b

\* Connection::Disconnect on connection variable c.
Disconnect(c) ==
    /\ ~crashed
    /\ conns[c].state = "live"
    /\ LET cn == conns[c]
           D == DisconnectDelegates(cn)
       IN IF BadAnyCast(cn)
          THEN Crash
          ELSE /\ Delegates' = D
               /\ conns' = [conns EXCEPT ![c] = Disconnected(cn)]
               /\ stack' = Invalidate(stack, {e \in EventIds : D[e] # Delegates[e]})
               /\ last' = [NoCall EXCEPT !.op = "Disconnect", !.c = c, !.ok = D # Delegates]
               /\ UNCHANGED <<bIsBroadcasting, evState, evSig, Priority, Callee,
                              nDelegates, Events, bEventsBlocked, crashed>>

\* A ScopedConnection whose destructor does not disconnect.
DestroyConnNoDisconnect(c) ==
    /\ ~crashed
    /\ conns[c].state = "live"
    /\ LET C == [conns EXCEPT ![c] = NoConn]
       IN /\ conns' = C
          /\ Destroy(Orphans(Events, C), Delegates, evState, evSig)
          /\ last' = [NoCall EXCEPT !.op = "DestroyConn", !.c = c]
          /\ UNCHANGED <<Priority, Callee, nDelegates, Events, bEventsBlocked, crashed>>

\* The connection variable c goes out of scope: ~ScopedConnection disconnects,
\* ~Connection does nothing; either releases the event reference.
DestroyConn(c) ==
    /\ ~crashed
    /\ conns[c].state = "live"
    /\ LET cn == conns[c]
           D == IF c \in ScopedIds THEN DisconnectDelegates(cn) ELSE Delegates
           C == [conns EXCEPT ![c] = NoConn]
       IN IF c \in ScopedIds /\ BadAnyCast(cn)
          THEN Crash
          ELSE /\ conns' = C
               /\ Destroy(Orphans(Events, C), D, evState, evSig)
               /\ last' = [NoCall EXCEPT !.op = "DestroyConn", !.c = c, !.ok = D # Delegates]
               /\ UNCHANGED <<Priority, Callee, nDelegates, Events, bEventsBlocked,
                              crashed>>

\* The slot test without the type comparison.
SlotMismatchEmptyOnly(id, sig) == Events[id] = Null

\* A move that copies: the source keeps its Event.
MovedFromKeepsEvent(cn) == cn

\* A connection whose Event and Delegate were moved out of it: the
\* shared_ptr is left empty, the std::any is taken to be left empty too.
MovedFrom(cn) == [cn EXCEPT !.Event = Null, !.Delegate = Null]

\* A move constructor that copies: both variables hold the subscription.
MoveConstructCopies(from, to) ==
    /\ ~crashed
    /\ from # to
    /\ conns[from].state = "live"
    /\ conns[to].state = "free"
    /\ conns' = [conns EXCEPT ![to] = conns[from]]
    /\ last' = [NoCall EXCEPT !.op = "MoveConstruct", !.c = to]
    /\ UNCHANGED <<Delegates, bIsBroadcasting, evState, evSig, Priority, Callee,
                   nDelegates, Events, bEventsBlocked, stack, crashed>>

\* Connection(Connection&&), ScopedConnection(Connection&&) and
\* ScopedConnection(ScopedConnection&&): the connection variable to is
\* initialised from std::move(from).
MoveConstruct(from, to) ==
    /\ ~crashed
    /\ from # to
    /\ conns[from].state = "live"
    /\ conns[to].state = "free"
    /\ conns' = [conns EXCEPT ![to] = conns[from], ![from] = MovedFrom(conns[from])]
    /\ last' = [NoCall EXCEPT !.op = "MoveConstruct", !.c = to]
    /\ UNCHANGED <<Delegates, bIsBroadcasting, evState, evSig, Priority, Callee,
                   nDelegates, Events, bEventsBlocked, stack, crashed>>

\* to = std::move(from).  Connection::operator= takes the four members;
\* ScopedConnection::operator= moves Event and copies Delegate only, and is
\* reached from a plain Connection through a temporary ScopedConnection,
\* which empties from.  The event to referred to loses that reference.
MoveAssign(from, to) ==
    /\ ~crashed
    /\ from # to
    /\ conns[from].state = "live"
    /\ conns[to].state = "live"
    /\ LET src == conns[from]
           dst == conns[to]
           C == [conns EXCEPT
                   ![to] = IF to \in ScopedIds
                           THEN [dst EXCEPT !.Event = src.Event, !.Delegate = src.Delegate]
                           ELSE src,
                   ![from] = IF to \in ScopedIds /\ from \in ScopedIds
                             THEN [src EXCEPT !.Event = Null]
                             ELSE MovedFrom(src)]
       IN /\ conns' = C
          /\ Destroy(Orphans(Events, C), Delegates, evState, evSig)
    /\ last' = [NoCall EXCEPT !.op = "MoveAssign", !.c = to]
    /\ UNCHANGED <<Priority, Callee, nDelegates, Events, bEventsBlocked, crashed>>

\* ------------------------------------------------------------- Manager
\* !Slot.has_value() || Slot.type() != typeid(SlotType)
SlotMismatch(id, sig) == Events[id] = Null \/ evSig[Events[id]] # sig

\* BlockEvents that empties the slots as well.
BlockEventsEmptiesSlots(b) ==
    /\ ~crashed
    /\ bEventsBlocked' = b
    /\ LET E == [id \in Ids |-> Null]
       IN /\ Events' = E
          /\ Destroy(Orphans(E, conns), Delegates, evState, evSig)
    /\ last' = [NoCall EXCEPT !.op = "BlockEvents"]
    /\ UNCHANGED <<Priority, Callee, nDelegates, conns, crashed>>

\* Manager::BlockEvents
BlockEvents(b) ==
    /\ ~crashed
    /\ bEventsBlocked' = b
    /\ last' = [NoCall EXCEPT !.op = "BlockEvents"]
    /\ UNCHANGED <<Delegates, bIsBroadcasting, evState, evSig, Priority, Callee,
                   nDelegates, Events, conns, stack, crashed>>

\* DeclareEvent that reports success on an occupied slot but keeps its event.
DeclareEventKeepsOccupied(id, sig, CanReplace) ==
    /\ ~crashed
    /\ IF Events[id] = Null
       THEN /\ \E e \in EventIds : evState[e] = "free"
            /\ LET e == FreeEvent
                   E == [Events EXCEPT ![id] = e]
               IN /\ Events' = E
                  /\ Destroy(Orphans(E, conns), Delegates, [evState EXCEPT ![e] = "alive"],
                             [evSig EXCEPT ![e] = sig])
       ELSE UNCHANGED <<Delegates, bIsBroadcasting, evState, evSig, Events, stack>>
    /\ last' = [NoCall EXCEPT !.op = "DeclareEvent", !.id = id, !.ok = TRUE]
    /\ UNCHANGED <<Priority, Callee, nDelegates, bEventsBlocked, conns, crashed>>

\* DeclareEvent that replaces whatever CanReplace says.
DeclareEventReplace(id, sig, CanReplace) ==
    /\ ~crashed
    /\ \E e \in EventIds : evState[e] = "free"
    /\ LET e == FreeEvent
           E == [Events EXCEPT ![id] = e]
       IN /\ Events' = E
          /\ Destroy(Orphans(E, conns), Delegates, [evState EXCEPT ![e] = "alive"],
                     [evSig EXCEPT ![e] = sig])
          /\ last' = [NoCall EXCEPT !.op = "DeclareEvent", !.id = id, !.ok = TRUE]
    /\ UNCHANGED <<Priority, Callee, nDelegates, bEventsBlocked, conns, crashed>>

\* Manager::DeclareEvent<ID, T>(CanReplace)
DeclareEvent(id, sig, CanReplace) ==
    /\ ~crashed
    /\ IF CanReplace \/ Events[id] = Null
       THEN /\ \E e \in EventIds : evState[e] = "free"
            /\ LET e == FreeEvent
                   E == [Events EXCEPT ![id] = e]
               IN /\ Events' = E
                  /\ Destroy(Orphans(E, conns), Delegates, [evState EXCEPT ![e] = "alive"],
                             [evSig EXCEPT ![e] = sig])
                  /\ last' = [NoCall EXCEPT !.op = "DeclareEvent", !.id = id, !.ok = TRUE]
       ELSE /\ last' = [NoCall EXCEPT !.op = "DeclareEvent", !.id = id, !.ok = FALSE]
            /\ UNCHANGED <<Delegates, bIsBroadcasting, evState, evSig, Events, stack>>
    /\ UNCHANGED <<Priority, Callee, nDelegates, bEventsBlocked, conns, crashed>>

\* DestroyAll that empties the "String" slot only.
DestroyAllStringOnly ==
    /\ ~crashed
    /\ LET E == [Events EXCEPT !["String"] = Null]
       IN /\ Events' = E
          /\ Destroy(Orphans(E, conns), Delegates, evState, evSig)
    /\ last' = [NoCall EXCEPT !.op = "DestroyAll"]
    /\ UNCHANGED <<Priority, Callee, nDelegates, bEventsBlocked, conns, crashed>>

\* Manager::DestroyAll
DestroyAll ==
    /\ ~crashed
    /\ LET E == [id \in Ids |-> Null]
       IN /\ Events' = E
          /\ Destroy(Orphans(E, conns), Delegates, evState, evSig)
    /\ last' = [NoCall EXCEPT !.op = "DestroyAll"]
    /\ UNCHANGED <<Priority, Callee, nDelegates, bEventsBlocked, conns, crashed>>

\* Manager::AddEventListener<ID>(callee, Priority, AllowDuplicates), through
\* Manager::AddListener; sig is the callee's signature, and the connection
\* returned initialises the connection variable c.
AddEventListener(id, sig, callee, Prio, AllowDuplicates, c) ==
    /\ ~crashed
    /\ conns[c].state = "free"
    /\ LET CastedSlot == Events[id]
       IN IF SlotMismatch(id, sig)
          THEN /\ conns' = [conns EXCEPT ![c] = ConnectionErr("FailedToMatchEventType")]
               /\ last' = [NoCall EXCEPT !.op = "AddEventListener", !.id = id, !.c = c,
                                         !.err = "FailedToMatchEventType"]
               /\ UNCHANGED <<Delegates, Priority, Callee, nDelegates, stack>>
          ELSE IF bIsBroadcasting[CastedSlot]
          THEN /\ conns' = [conns EXCEPT ![c] =
                              ConnectionErr("ModifyingCallbackListDuringBroadcast")]
               /\ last' = [NoCall EXCEPT !.op = "AddEventListener", !.id = id, !.c = c,
                                         !.err = "ModifyingCallbackListDuringBroadcast"]
               /\ UNCHANGED <<Delegates, Priority, Callee, nDelegates, stack>>
          ELSE LET r == AddListenerResult(CastedSlot, Prio, AllowDuplicates)
               IN /\ nDelegates < MaxMgrDelegates
                  /\ ApplyAdd(CastedSlot, r, callee, Prio)
                  /\ conns' = [conns EXCEPT ![c] =
                                 IF r.d = Null THEN ConnectionErr("CallbackAlreadyAdded")
                                 ELSE ConnectionOf(CastedSlot, r.d)]
                  /\ last' = [NoCall EXCEPT !.op = "AddEventListener", !.id = id, !.c = c,
                                            !.ok = r.d # Null,
                                            !.err = IF r.d = Null THEN "CallbackAlreadyAdded"
                                                    ELSE "OK"]
    /\ UNCHANGED <<bIsBroadcasting, evState, evSig, Events, bEventsBlocked, crashed>>

\* TriggerEvent that tests the slot before the block flag.
TriggerEventSlotFirst(id, sig, op) ==
    /\ ~crashed
    /\ op \in {"TriggerEvent", "TriggerEventComplex"}
    /\ op = "TriggerEventComplex" => sig # SigVoid
    /\ IF SlotMismatch(id, sig)
       THEN /\ last' = [NoCall EXCEPT !.op = op, !.id = id, !.err = "FailedToMatchEventType"]
            /\ UNCHANGED <<bIsBroadcasting, stack>>
       ELSE IF bEventsBlocked
       THEN /\ last' = [NoCall EXCEPT !.op = op, !.id = id, !.err = "EventsBlocked"]
            /\ UNCHANGED <<bIsBroadcasting, stack>>
       ELSE BeginTrigger(op, Events[id], id)
    /\ UNCHANGED <<Delegates, evState, evSig, Priority, Callee, nDelegates, Events,
                   bEventsBlocked, conns, crashed>>

\* Manager::TriggerEvent<ID, ReturnType, Args...> and TriggerEventComplex; sig
\* is the signature the caller's template arguments spell.
TriggerEvent(id, sig, op) ==
    /\ ~crashed
    /\ op \in {"TriggerEvent", "TriggerEventComplex"}
    /\ op = "TriggerEventComplex" => sig # SigVoid
    /\ IF bEventsBlocked
       THEN /\ last' = [NoCall EXCEPT !.op = op, !.id = id, !.err = "EventsBlocked"]
            /\ UNCHANGED <<bIsBroadcasting, stack>>
       ELSE IF SlotMismatch(id, sig)
       THEN /\ last' = [NoCall EXCEPT !.op = op, !.id = id, !.err = "FailedToMatchEventType"]
            /\ UNCHANGED <<bIsBroadcasting, stack>>
       ELSE BeginTrigger(op, Events[id], id)
    /\ UNCHANGED <<Delegates, evState, evSig, Priority, Callee, nDelegates, Events,
                   bEventsBlocked, conns, crashed>>

\* ------------------------------------------------------------- behaviours
\* The caller holds the event object itself (SingleEventTest).
NextEvent ==
    \/ \E callee \in Callees, Prio \in Prios, dup \in BOOLEAN :
          AddListener(StringEvent, callee, Prio, dup)
    \/ \E d \in DelegateIds : RemoveListener(StringEvent, d)
    \/ \E op \in {"Trigger", "TriggerComplex"} : Trigger(StringEvent, op)
    \/ ListenerReturn
    \/ ListenerReturnInvalid

SpecEvent == Init /\ [][NextEvent]_vars

\* The signature each id is declared with in the showcase.
DeclaredSig == [id \in Ids |-> IF id = "String" THEN SigString ELSE SigVoid]

\* The caller reaches one event through the Manager and keeps the
\* connections of EventMgrTest: the subscriptions' life cycle.  Listeners
\* call anything but a trigger.
Next ==
    \/ ListenerReturn
    \/ ListenerReturnInvalid
    \/ \E c \in OneOfEach : Disconnect(c)
    \/ \E c \in OneOfEach : DestroyConn(c)
    \/ \E sig \in Sigs, CanReplace \in BOOLEAN : DeclareEvent("String", sig, CanReplace)
    \/ DestroyAll
    \/ \E Prio \in Prios, dup \in BOOLEAN, c \in OneOfEach :
          AddEventListener("String", SigString, Callable, Prio, dup, c)
    \/ \E op \in {"TriggerEvent", "TriggerEventComplex"} :
          stack = <<>> /\ TriggerEvent("String", SigString, op)

Spec == Init /\ [][Next]_vars

\* The Manager as a registry: both ids, both signatures, blocking; the
\* caller keeps one connection variable and listeners trigger nothing.
NextReg ==
    \/ ListenerReturn
    \/ ListenerReturnInvalid
    \/ Disconnect("Conn0")
    \/ DestroyConn("Conn0")
    \/ \E b \in BOOLEAN : BlockEvents(b)
    \/ \E id \in Ids, CanReplace \in BOOLEAN : DeclareEvent(id, DeclaredSig[id], CanReplace)
    \/ DestroyAll
    \/ \E id \in Ids, sig \in Sigs, Prio \in Prios, dup \in BOOLEAN :
          AddEventListener(id, sig, Callable, Prio, dup, "Conn0")
    \/ \E id \in Ids, sig \in Sigs, op \in {"TriggerEvent", "TriggerEventComplex"} :
          stack = <<>> /\ TriggerEvent(id, sig, op)

SpecReg == Init /\ [][NextReg]_vars

\* A call made by the caller itself, while no listener is running.
Caller(A) == stack = <<>> /\ A

\* The caller alone acts, on the event it holds itself and on the one it
\* reaches through the Manager; listeners call nothing, so every trigger
\* runs with its iterators intact.
NextCaller ==
    \/ ListenerReturn
    \/ \E Prio \in Prios : Caller(AddListener(StringEvent, Free, Prio, FALSE))
    \/ \E d \in DelegateIds : Caller(RemoveListener(StringEvent, d))
    \/ \E op \in {"Trigger", "TriggerComplex"} : Caller(Trigger(StringEvent, op))
    \/ Caller(DeclareEvent("String", SigString, FALSE))
    \/ \E Prio \in Prios : Caller(AddEventListener("String", SigString, Callable, Prio, TRUE, "Conn2"))
    \/ Caller(Disconnect("Conn2"))
    \/ Caller(DestroyConn("Conn2"))
    \/ \E op \in {"TriggerEvent", "TriggerEventComplex"} :
          Caller(TriggerEvent("String", SigString, op))

SpecCaller == Init /\ [][NextCaller]_vars

\* The caller adds listeners through the Manager and moves the connections
\* about between a ScopedConnection and a Connection; listeners call nothing.
NextMove ==
    \/ ListenerReturn
    \/ \E CanReplace \in BOOLEAN : Caller(DeclareEvent("String", SigString, CanReplace))
    \/ \E Prio \in Prios, c \in OneOfEach :
          Caller(AddEventListener("String", SigString, Callable, Prio, TRUE, c))
    \/ \E op \in {"TriggerEvent", "TriggerEventComplex"} :
          Caller(TriggerEvent("String", SigString, op))
    \/ \E c \in OneOfEach : Caller(Disconnect(c))
    \/ \E c \in OneOfEach : Caller(DestroyConn(c))
    \/ \E from, to \in OneOfEach : Caller(MoveConstruct(from, to))
    \/ \E from, to \in OneOfEach : Caller(MoveAssign(from, to))

SpecMove == Init /\ [][NextMove]_vars

\* Two events, the one the caller holds itself and the one in the Manager's
\* "String" slot: callers and listeners add, remove, disconnect and trigger,
\* but no listener triggers an event that is already being triggered.
NextNested ==
    \/ ListenerReturn
    \/ \E Prio \in Prios : AddListener(StringEvent, Free, Prio, FALSE)
    \/ \E d \in DelegateIds : RemoveListener(StringEvent, d)
    \/ \E op \in {"Trigger", "TriggerComplex"} :
          ~Iterating(StringEvent) /\ Trigger(StringEvent, op)
    \/ Caller(DeclareEvent("String", SigString, FALSE))
    \/ \E Prio \in Prios :
          AddEventListener("String", SigString, Callable, Prio, TRUE, "Conn2")
    \/ Disconnect("Conn2")
    \/ DestroyConn("Conn2")
    \/ \E op \in {"TriggerEvent", "TriggerEventComplex"} :
          ~Iterating(Events["String"]) /\ TriggerEvent("String", SigString, op)

SpecNested == Init /\ [][NextNested]_vars

\* Every subscription is held by a ScopedConnection: the caller adds
\* listeners into Conn0 and Conn1, assigns and moves one to the other,
\* disconnects them and lets them go out of scope; listeners call nothing.
NextScoped ==
    \/ ListenerReturn
    \/ Caller(DeclareEvent("String", SigString, FALSE))
    \/ \E id \in Ids, Prio \in Prios, c \in ScopedIds :
          Caller(AddEventListener(id, SigString, Callable, Prio, TRUE, c))
    \/ Caller(TriggerEvent("String", SigString, "TriggerEvent"))
    \/ \E c \in ScopedIds : Caller(Disconnect(c))
    \/ \E c \in ScopedIds : Caller(DestroyConn(c))
    \/ \E from, to \in ScopedIds : Caller(MoveConstruct(from, to))
    \/ \E from, to \in ScopedIds : Caller(MoveAssign(from, to))

SpecScoped == Init /\ [][NextScoped]_vars

\* ------------------------------------------------------------------ claims
TriggerOps == {"Trigger", "TriggerComplex", "TriggerEvent", "TriggerEventComplex"}

\* A call of one of the Trigger operations has just returned.
TriggerReturned == last.op \in TriggerOps /\ last.ok

NonIncreasing(ds) ==
    \A i, j \in 1..Len(ds) : i < j => Priority[ds[i]] >= Priority[ds[j]]

\* Delegates are numbered in the order they were added, so among equals the
\* earlier one has the smaller number.
EarlierFirst(ds) ==
    \A i, j \in 1..Len(ds) : i < j /\ Priority[ds[i]] = Priority[ds[j]] => ds[i] < ds[j]

\* C1: after any sequence of adds and removes an event's listener sequence is
\* sorted by non-increasing priority, and a Trigger during which the sequence
\* is not modified invokes the listeners in that order.
C1_SortedByPriority ==
    /\ \A e \in EventIds : NonIncreasing(Delegates[e])
    /\ \A k \in DOMAIN stack : stack[k].valid => NonIncreasing(stack[k].fired)
    /\ TriggerReturned /\ last.intact =>
          NonIncreasing(last.fired) /\ last.fired = last.snap

\* A Trigger returned after invoking three listeners, one of which was added
\* later than a listener of lower priority and yet was invoked before it.
C1_Witness ==
    /\ TriggerReturned /\ last.intact
    /\ Len(last.fired) = 3
    /\ \E i, j \in 1..3 : /\ i < j
                           /\ last.fired[i] > last.fired[j]
                           /\ Priority[last.fired[i]] > Priority[last.fired[j]]

\* C2: among listeners of equal priority the one added earlier stands, and
\* is invoked, before the one added later, whatever other listeners have
\* been added or removed since.
C2_StableAmongEquals ==
    /\ \A e \in EventIds : EarlierFirst(Delegates[e])
    /\ \A k \in DOMAIN stack : stack[k].valid => EarlierFirst(stack[k].fired)
    /\ TriggerReturned /\ last.intact => EarlierFirst(last.fired)

\* A Trigger invoked two listeners of equal priority, earlier one first,
\* after a third listener had been added and removed again.
C2_Witness ==
    /\ TriggerReturned /\ last.intact
    /\ nDelegates = 3
    /\ Len(last.fired) = 2
    /\ Priority[last.fired[1]] = Priority[last.fired[2]]
    /\ last.fired[1] < last.fired[2]
    /\ \E d \in 1..3 : d \notin Range(last.fired) /\ d < last.fired[2]

\* The results a plain Trigger collects from the listeners ds, in order.
ResultsOf(ds) == [i \in 1..Len(ds) |-> Invoke(ds[i])]

\* C3: a Trigger invokes each of the n listeners registered when it began
\* exactly once, in stored order, and returns their n results in that order,
\* whatever its listeners attempt while it runs.
C3_TriggerInvokesEachOnce ==
    TriggerReturned =>
        /\ last.fired = last.snap
        /\ last.op = "Trigger" => last.Results = ResultsOf(last.snap)

\* The sequence ds without the delegate d, the others in their order.
Without(ds, d) == SelectSeq(ds, LAMBDA x : x # d)

\* C4: RemoveListener(handle) on an event that is not broadcasting returns OK
\* and removes exactly that delegate, keeping the others in their order; with
\* a handle that is not registered it changes nothing.  A Trigger whose
\* iterators are intact invokes registered listeners only.
C4_RemoveExactlyThatDelegate ==
    [][/\ \A d \in DelegateIds :
            RemoveListener(StringEvent, d) /\ ~bIsBroadcasting[StringEvent] =>
               /\ last'.err = "OK"
               /\ Delegates'[StringEvent] = Without(Delegates[StringEvent], d)
               /\ d \notin Range(Delegates[StringEvent]) => Delegates' = Delegates
               /\ UNCHANGED <<Priority, Callee, nDelegates, bIsBroadcasting>>
       /\ \A k \in DOMAIN stack' :
            stack'[k].valid => Range(stack'[k].fired) \subseteq Range(Delegates'[stack'[k].ev])
      ]_vars

\* One of three listeners was removed and the other two remain.
C4_Witness ==
    /\ last.op = "RemoveListener" /\ last.err = "OK" /\ last.ok
    /\ nDelegates = 3
    /\ Len(Delegates[StringEvent]) = 2

\* C5: while a Trigger of an event is still iterating, every AddListener and
\* RemoveListener made on that event by its listeners is rejected.
C5_MutationRejectedWhileIterating ==
    Iterating(StringEvent) =>
        /\ last.op = "AddListener" => last.d = Null
        /\ last.op = "RemoveListener" => last.err = "ModifyingCallbackListDuringBroadcast"

MgrTriggerOps == {"TriggerEvent", "TriggerEventComplex"}

\* Every variable but last: the registry, the events and the connections.
state == <<Delegates, bIsBroadcasting, evState, evSig, Priority, Callee, nDelegates,
           Events, bEventsBlocked, conns, stack, crashed>>

\* C6: Disconnect never fails and leaves the connection inactive; it removes
\* at most the one delegate its connection was created for, keeping all
\* other listeners in their order, and on a connection that is already
\* inactive it changes no delegate sequence.
C6_DisconnectIdempotent ==
    [][\A c \in ConnIds :
          Disconnect(c) =>
             LET cn == conns[c]
             IN /\ ~crashed'
                /\ ~conns'[c].bActive /\ ~AsBool(conns'[c]) /\ ~IsActive(conns'[c])
                /\ \A b \in ConnIds \ {c} : conns'[b] = conns[b]
                /\ \A e \in EventIds :
                      \/ Delegates'[e] = Delegates[e]
                      \/ /\ e = cn.Event
                         /\ Delegates'[e] = Without(Delegates[e], cn.Delegate)
                         /\ Len(Delegates'[e]) = Len(Delegates[e]) - 1
                /\ ~cn.bActive => Delegates' = Delegates
      ]_vars

\* Disconnect was called again on a connection whose delegate an earlier
\* Disconnect had removed, while another listener of the event stays.
C6_Witness ==
    /\ last.op = "Disconnect" /\ ~last.ok
    /\ LET cn == conns[last.c]
       IN /\ cn.state = "live" /\ cn.Event # Null /\ ~cn.bActive
          /\ cn.Delegate \notin Range(Delegates[cn.Event])
          /\ Delegates[cn.Event] # <<>>

\* The delegate of connection cn is registered with no event.
Gone(cn, D) == \A e \in EventIds : cn.Delegate \notin Range(D[e])

\* C7: destroying a connected ScopedConnection, like Disconnect on a
\* connected Connection, removes its listener when its event is not
\* broadcasting; a trigger invokes registered listeners only, and on an id
\* whose event has no listener left TriggerEvent invokes nothing and returns
\* zero results with OK.
C7_ScopeExitRemovesListeners ==
    [][/\ \A c \in ScopedIds :
            DestroyConn(c) /\ AsBool(conns[c]) /\ ~bIsBroadcasting[conns[c].Event] =>
               /\ ~crashed'
               /\ Gone(conns[c], Delegates')
               /\ \A e \in EventIds : evState'[e] = "alive" =>
                     Delegates'[e] = Without(Delegates[e], conns[c].Delegate)
       /\ \A c \in ConnIds :
            Disconnect(c) /\ AsBool(conns[c]) /\ ~bIsBroadcasting[conns[c].Event] =>
               Gone(conns[c], Delegates')
       /\ \A op \in MgrTriggerOps :
            /\ TriggerEvent("String", SigString, op)
            /\ ~SlotMismatch("String", SigString)
            /\ Delegates[Events["String"]] = <<>>
            => /\ last'.op = op /\ last'.err = "OK"
               /\ last'.Results = <<>> /\ last'.fired = <<>>
               /\ UNCHANGED state
       /\ \A k \in DOMAIN stack' :
            stack'[k].valid => Range(stack'[k].fired) \subseteq Range(Delegates'[stack'[k].ev])
      ]_vars

\* Two listeners were added to the event of the id; the scoped connection
\* has been destroyed and the plain one disconnected, and TriggerEvent on
\* the id returned no result with OK.
C7_Witness ==
    /\ last.op \in MgrTriggerOps /\ last.err = "OK"
    /\ last.Results = <<>> /\ last.fired = <<>>
    /\ nDelegates = 2
    /\ conns["Conn0"].state = "free"
    /\ conns["Conn2"].state = "live" /\ ~conns["Conn2"].bActive
    /\ conns["Conn2"].Event # Null /\ conns["Conn2"].Event = Events["String"]
    /\ Delegates[Events["String"]] = <<>>

\* C8 as stated: a trigger on an id whose slot is empty or holds an event of
\* another signature returns FailedToMatchEventType with an empty result,
\* invokes no listener and changes no state.
C8_MismatchAlwaysReported ==
    [][\A id \in Ids, sig \in Sigs, op \in MgrTriggerOps :
          TriggerEvent(id, sig, op) /\ (Events[id] = Null \/ evSig[Events[id]] # sig) =>
             /\ last'.op = op /\ last'.err = "FailedToMatchEventType"
             /\ last'.Results = <<>> /\ last'.fired = <<>>
             /\ UNCHANGED state
      ]_vars

\* C8 amended: while events are not blocked, a trigger on an id whose slot
\* is empty or holds an event of another signature returns
\* FailedToMatchEventType with an empty result; blocked or not, it invokes
\* no listener and changes no state.
C8_MismatchReportedUnlessBlocked ==
    [][\A id \in Ids, sig \in Sigs, op \in MgrTriggerOps :
          TriggerEvent(id, sig, op) /\ (Events[id] = Null \/ evSig[Events[id]] # sig) =>
             /\ last'.op = op
             /\ last'.err = IF bEventsBlocked THEN "EventsBlocked"
                             ELSE "FailedToMatchEventType"
             /\ last'.Results = <<>> /\ last'.fired = <<>>
             /\ UNCHANGED state
      ]_vars

\* A trigger returned FailedToMatchEventType on an id whose slot holds an
\* event with a listener, which was not invoked.
C8_Witness ==
    /\ last.op \in MgrTriggerOps /\ last.err = "FailedToMatchEventType"
    /\ ~bEventsBlocked
    /\ Events[last.id] # Null
    /\ Delegates[Events[last.id]] # <<>>
    /\ stack = <<>>

\* C9: while events are blocked every trigger on every id returns
\* EventsBlocked, whatever its slot holds, invokes no listener and changes
\* nothing; only BlockEvents changes the flag; once unblocked, a trigger on
\* a matching slot runs the event's Trigger over its listeners and, left
\* undisturbed, returns OK having invoked them all.
C9_BlockedTriggersRejected ==
    [][/\ \A id \in Ids, sig \in Sigs, op \in MgrTriggerOps :
            TriggerEvent(id, sig, op) =>
               IF bEventsBlocked
               THEN /\ last'.op = op /\ last'.err = "EventsBlocked"
                    /\ last'.Results = <<>> /\ last'.fired = <<>>
                    /\ UNCHANGED state
               ELSE ~SlotMismatch(id, sig) =>
                      IF Delegates[Events[id]] = <<>>
                      THEN last'.op = op /\ last'.err = "OK" /\ stack' = stack
                      ELSE /\ Len(stack') = Len(stack) + 1
                           /\ stack'[Len(stack')].snap = Delegates[Events[id]]
                           /\ stack'[Len(stack')].fired = <<Delegates[Events[id]][1]>>
       /\ \A b \in BOOLEAN : BlockEvents(b) => bEventsBlocked' = b
       /\ bEventsBlocked' # bEventsBlocked => last'.op \in {"BlockEvents", "crash"}
       /\ last'.op \in MgrTriggerOps /\ last'.ok /\ last'.intact =>
             last'.err = "OK" /\ last'.fired = last'.snap
      ]_vars

\* While blocked, a trigger on an id whose event has a listener returned
\* EventsBlocked.
C9_Witness ==
    /\ last.op \in MgrTriggerOps /\ last.err = "EventsBlocked"
    /\ bEventsBlocked
    /\ Events[last.id] # Null
    /\ Delegates[Events[last.id]] # <<>>

\* C10: DeclareEvent on an occupied slot without CanReplace returns false
\* and changes nothing: the slot holds the same event with the same
\* signature and listeners, and each connection to that event still refers
\* to the event of the id, so that its Disconnect removes its listener there.
C10_DeclareOccupiedKeepsEvent ==
    [][\A sig \in Sigs :
          DeclareEvent("String", sig, FALSE) /\ Events["String"] # Null =>
             /\ last'.op = "DeclareEvent" /\ ~last'.ok
             /\ UNCHANGED state
             /\ \A c \in ConnIds :
                   conns[c].state = "live" /\ conns[c].Event = Events["String"] =>
                      /\ conns'[c] = conns[c]
                      /\ conns'[c].Event = Events'["String"]
                      /\ AsBool(conns[c]) /\ ~bIsBroadcasting[Events["String"]] =>
                            /\ conns[c].Delegate \in Range(Delegates'[Events'["String"]])
                            /\ DisconnectDelegates(conns[c]) =
                                  [Delegates' EXCEPT ![Events'["String"]] =
                                      Without(@, conns[c].Delegate)]
      ]_vars

\* DeclareEvent was refused on a slot whose event has two listeners, both
\* held by connected connections.
C10_Witness ==
    /\ last.op = "DeclareEvent" /\ ~last.ok
    /\ Events["String"] # Null
    /\ Len(Delegates[Events["String"]]) = 2
    /\ \A c \in OneOfEach : AsBool(conns[c]) /\ conns[c].Event = Events["String"]

\* C11: DeclareEvent on an empty slot, or with CanReplace, returns true and
\* leaves in the slot a newly made event of the declared signature with no
\* listener and not broadcasting; a trigger through the id runs over the
\* listeners of the slot's event only, so with none it returns OK and an
\* empty result.
C11_DeclareMakesFreshEvent ==
    [][/\ \A sig \in Sigs, CanReplace \in BOOLEAN :
            DeclareEvent("String", sig, CanReplace) /\ (CanReplace \/ Events["String"] = Null) =>
               LET e == Events'["String"]
               IN /\ last'.op = "DeclareEvent" /\ last'.ok
                  /\ e # Null /\ e # Events["String"]
                  /\ evState[e] = "free" /\ evState'[e] = "alive"
                  /\ evSig'[e] = sig
                  /\ Delegates'[e] = <<>>
                  /\ ~bIsBroadcasting'[e]
                  /\ \A c \in ConnIds : conns'[c].Event # e
       /\ \A op \in MgrTriggerOps :
            TriggerEvent("String", SigString, op) /\ ~SlotMismatch("String", SigString) =>
               IF Delegates[Events["String"]] = <<>>
               THEN /\ last'.op = op /\ last'.err = "OK"
                    /\ last'.Results = <<>> /\ last'.fired = <<>>
                    /\ stack' = stack
               ELSE /\ stack'[Len(stack')].ev = Events["String"]
                    /\ stack'[Len(stack')].snap = Delegates[Events["String"]]
      ]_vars

\* DeclareEvent succeeded while a connection still holds another event with
\* its listener: the slot's event has none.
C11_Witness ==
    /\ last.op = "DeclareEvent" /\ last.ok
    /\ Events["String"] # Null
    /\ Delegates[Events["String"]] = <<>>
    /\ \E c \in ConnIds : /\ AsBool(conns[c])
                           /\ conns[c].Event # Events["String"]
                           /\ Delegates[conns[c].Event] # <<>>

\* C12: AddEventListener on an id whose slot is empty or holds an event of
\* another signature returns a connection with error FailedToMatchEventType
\* that converts to false and is not active; no listener is added and no
\* slot or event changes.
C12_AddToMismatchedSlotFails ==
    [][\A id \in Ids, sig \in Sigs, Prio \in Prios, dup \in BOOLEAN, c \in ConnIds :
          /\ AddEventListener(id, sig, Callable, Prio, dup, c)
          /\ Events[id] = Null \/ evSig[Events[id]] # sig
          => /\ last'.op = "AddEventListener" /\ last'.err = "FailedToMatchEventType"
             /\ conns'[c].state = "live"
             /\ GetError(conns'[c]) = "FailedToMatchEventType"
             /\ ~AsBool(conns'[c]) /\ ~IsActive(conns'[c])
             /\ conns'[c].Event = Null
             /\ \A b \in ConnIds \ {c} : conns'[b] = conns[b]
             /\ UNCHANGED <<Delegates, bIsBroadcasting, evState, evSig, Priority, Callee,
                            nDelegates, Events, bEventsBlocked, stack, crashed>>
      ]_vars

\* AddEventListener returned FailedToMatchEventType on an id whose slot
\* holds an event, of the other signature.
C12_Witness ==
    /\ last.op = "AddEventListener" /\ last.err = "FailedToMatchEventType"
    /\ Events[last.id] # Null
    /\ conns[last.c].state = "live"
    /\ GetError(conns[last.c]) = "FailedToMatchEventType"
    /\ ~AsBool(conns[last.c])

\* C13: AddEventListener on a slot of matching signature has one of three
\* outcomes: on a broadcasting event, error ModifyingCallbackListDuringBroadcast
\* and no change; on a delegate rejected as duplicate, error
\* CallbackAlreadyAdded and no change; otherwise error OK and a connection
\* that converts to true, is active and whose delegate now stands in the
\* event's sequence after every delegate of at least its priority and
\* before every delegate of lower priority.
C13_AddToMatchingSlotOutcomes ==
    [][\A Prio \in Prios, dup \in BOOLEAN, c \in ConnIds :
          /\ AddEventListener("String", SigString, Callable, Prio, dup, c)
          /\ Events["String"] # Null /\ evSig[Events["String"]] = SigString
          => LET e == Events["String"]
                 cn == conns'[c]
                 D == Delegates'[e]
             IN /\ cn.state = "live"
                /\ last'.err = GetError(cn)
                /\ UNCHANGED <<Events, evState, evSig, bIsBroadcasting>>
                /\ \A b \in EventIds \ {e} : Delegates'[b] = Delegates[b]
                /\ IF bIsBroadcasting[e]
                   THEN /\ GetError(cn) = "ModifyingCallbackListDuringBroadcast"
                        /\ ~AsBool(cn) /\ ~IsActive(cn)
                        /\ D = Delegates[e]
                   ELSE \/ /\ GetError(cn) = "CallbackAlreadyAdded"
                           /\ ~dup
                           /\ ~AsBool(cn) /\ ~IsActive(cn)
                           /\ D = Delegates[e]
                        \/ /\ GetError(cn) = "OK"
                           /\ AsBool(cn) /\ IsActive(cn)
                           /\ cn.Event = e
                           /\ cn.Delegate \notin Range(Delegates[e])
                           /\ Priority'[cn.Delegate] = Prio
                           /\ Len(D) = Len(Delegates[e]) + 1
                           /\ Without(D, cn.Delegate) = Delegates[e]
                           /\ \E k \in 1..Len(D) :
                                 /\ D[k] = cn.Delegate
                                 /\ \A j \in 1..(k - 1) : Priority'[D[j]] >= Prio
                                 /\ \A j \in (k + 1)..Len(D) : Priority'[D[j]] < Prio
      ]_vars

\* The second listener added through the id has the higher priority: its
\* connection converts to true and its delegate stands first.
C13_Witness ==
    /\ last.op = "AddEventListener" /\ last.err = "OK"
    /\ Events["String"] # Null
    /\ Len(Delegates[Events["String"]]) = 2
    /\ AsBool(conns[last.c]) /\ IsActive(conns[last.c])
    /\ conns[last.c].Delegate = Delegates[Events["String"]][1]
    /\ Delegates[Events["String"]][2] < conns[last.c].Delegate

\* C14: adding to an event a free function that is already registered there,
\* with AllowDuplicates false, returns null and leaves the sequence as it is.
C14_DuplicateCalleeRejected ==
    [][\A Prio \in Prios :
          /\ AddListener(StringEvent, Free, Prio, FALSE)
          /\ ~bIsBroadcasting[StringEvent]
          /\ \E d \in Range(Delegates[StringEvent]) : Callee[d] = Free
          => /\ last'.d = Null
             /\ Delegates' = Delegates
      ]_vars

\* C15: adding an already registered callee again with AllowDuplicates true
\* lengthens the sequence by one; the new registration is a delegate of its
\* own, held by the connection returned and by no other; a trigger that
\* runs undisturbed invokes every registration once and reports OK, so two
\* registrations of one callee give two invocations and two results.
C15_DuplicatesAllowedAddOne ==
    [][/\ \A Prio \in Prios, c \in ConnIds :
            /\ AddEventListener("String", SigString, Callable, Prio, TRUE, c)
            /\ ~SlotMismatch("String", SigString)
            /\ ~bIsBroadcasting[Events["String"]]
            => LET e == Events["String"]
               IN /\ last'.err = "OK"
                  /\ AsBool(conns'[c])
                  /\ Len(Delegates'[e]) = Len(Delegates[e]) + 1
                  /\ conns'[c].Delegate \notin Range(Delegates[e])
                  /\ conns'[c].Delegate \in Range(Delegates'[e])
                  /\ Callee'[conns'[c].Delegate] = Callable
                  /\ \A b \in ConnIds \ {c} : conns'[b].Delegate # conns'[c].Delegate
       /\ last'.op \in MgrTriggerOps /\ last'.ok /\ last'.intact =>
             /\ last'.err = "OK"
             /\ last'.fired = last'.snap
             /\ \A i, j \in 1..Len(last'.snap) : i # j => last'.snap[i] # last'.snap[j]
             /\ last'.op = "TriggerEvent" =>
                   last'.Results = [i \in 1..Len(last'.snap) |-> Callee'[last'.snap[i]]]
      ]_vars

\* One callee is registered twice, each registration held by its own
\* connection, and TriggerEvent returned OK with two results after invoking
\* both.
C15_Witness ==
    /\ last.op = "TriggerEvent" /\ last.err = "OK" /\ last.intact
    /\ Len(last.fired) = 2 /\ Len(last.Results) = 2
    /\ last.fired[1] # last.fired[2]
    /\ Callee[last.fired[1]] = Callee[last.fired[2]]
    /\ {conns[c].Delegate : c \in OneOfEach} = Range(last.fired)
    /\ \A c \in OneOfEach : AsBool(conns[c])

\* C16: an event referred to by a connection stays alive when its slot is
\* redeclared or released; Disconnect on a connection to an event that is no
\* longer in the slot does not fail, removes that connection's delegate
\* from the old event when the connection is connected and the old event
\* not broadcasting, and changes neither the slot nor the listeners of any
\* other event, the slot's current one included.
C16_DisconnectFromReplacedEvent ==
    [][/\ \A c \in ConnIds :
            Disconnect(c) /\ conns[c].Event # Null /\ conns[c].Event # Events["String"] =>
               LET old == conns[c].Event
               IN /\ ~crashed'
                  /\ last'.op = "Disconnect"
                  /\ ~AsBool(conns'[c])
                  /\ Events' = Events
                  /\ evState[old] = "alive" /\ evState'[old] = "alive"
                  /\ \A e \in EventIds \ {old} : Delegates'[e] = Delegates[e]
                  /\ AsBool(conns[c]) /\ ~bIsBroadcasting[old] =>
                        /\ conns[c].Delegate \in Range(Delegates[old])
                        /\ Delegates'[old] = Without(Delegates[old], conns[c].Delegate)
       /\ \A c \in ConnIds :
            conns'[c].state = "live" /\ conns'[c].Event # Null =>
               evState'[conns'[c].Event] = "alive"
      ]_vars

\* Disconnect removed a delegate from an event that is no longer in the
\* slot, while the slot's current event keeps its listener.
C16_Witness ==
    /\ last.op = "Disconnect" /\ last.ok
    /\ conns[last.c].Event # Null
    /\ Events["String"] # Null
    /\ conns[last.c].Event # Events["String"]
    /\ Delegates[conns[last.c].Event] = <<>>
    /\ Delegates[Events["String"]] # <<>>

\* C17: a trigger of an event that holds no listener, because none was
\* added or because all were removed or disconnected, invokes nothing and
\* returns an empty result, with error OK through the Manager; so for
\* Trigger, TriggerComplex, TriggerEvent and TriggerEventComplex.
C17_EmptyEventTriggersEmpty ==
    [][/\ \A op \in {"Trigger", "TriggerComplex"} :
            Trigger(StringEvent, op) /\ Delegates[StringEvent] = <<>> =>
               /\ last'.op = op /\ last'.ok
               /\ last'.err \notin EError \ {"OK"}
               /\ last'.Results = <<>> /\ last'.fired = <<>>
               /\ ~bIsBroadcasting'[StringEvent]
               /\ UNCHANGED <<Delegates, stack, crashed>>
       /\ \A op \in MgrTriggerOps :
            /\ TriggerEvent("String", SigString, op)
            /\ ~bEventsBlocked
            /\ Events["String"] # Null /\ evSig[Events["String"]] = SigString
            /\ Delegates[Events["String"]] = <<>>
            => /\ last'.op = op /\ last'.ok /\ last'.err = "OK"
               /\ last'.Results = <<>> /\ last'.fired = <<>>
               /\ ~bIsBroadcasting'[Events["String"]]
               /\ UNCHANGED <<Delegates, stack, crashed>>
      ]_vars

\* TriggerEventComplex returned OK and nothing after the listener of the
\* slot's event had been disconnected and the one of the caller's own event
\* removed, leaving both events empty.
C17_Witness ==
    /\ last.op = "TriggerEventComplex" /\ last.ok /\ last.err = "OK"
    /\ last.Results = <<>> /\ last.fired = <<>>
    /\ nDelegates >= 2
    /\ Events["String"] # Null
    /\ conns["Conn2"].state = "live" /\ ~conns["Conn2"].bActive
    /\ conns["Conn2"].Event = Events["String"]
    /\ Delegates[Events["String"]] = <<>>
    /\ Delegates[StringEvent] = <<>>

\* C18: a connection made from an error code refers to no event, converts
\* to false, is not active and reports that error, before and after any
\* Disconnect; Disconnect on it and its destruction do not fail and change
\* no event's listeners.
C18_ErrorConnectionInert ==
    [][/\ \A c \in ConnIds :
            conns'[c].state = "live" /\ conns'[c].Error # "OK" =>
               /\ conns'[c].Event = Null
               /\ ~AsBool(conns'[c])
               /\ ~IsActive(conns'[c])
       /\ \A c \in ConnIds :
            Disconnect(c) /\ conns[c].Error # "OK" =>
               /\ ~crashed'
               /\ GetError(conns'[c]) = GetError(conns[c])
               /\ UNCHANGED <<Delegates, bIsBroadcasting, evState, evSig, Events, stack>>
       /\ \A c \in ConnIds :
            DestroyConn(c) /\ conns[c].Error # "OK" =>
               /\ ~crashed'
               /\ UNCHANGED <<Delegates, bIsBroadcasting, evState, evSig, Events, stack>>
      ]_vars

\* Disconnect was called on a connection carrying an error while the
\* slot's event has a listener.
C18_Witness ==
    /\ last.op = "Disconnect"
    /\ conns[last.c].state = "live"
    /\ GetError(conns[last.c]) # "OK"
    /\ ~conns[last.c].bActive
    /\ Events["String"] # Null
    /\ Delegates[Events["String"]] # <<>>

\* C19: a connection converts to true exactly when it refers to an event
\* and its active flag, which Disconnect clears, is set: the connection a
\* successful AddEventListener returns converts to true, one made from an
\* error converts to false, a connection converts to false once Disconnect
\* was called on it or its contents were moved into another connection, and
\* it turns true again only by being assigned the contents of another.
C19_BoolIffEventAndActive ==
    [][/\ \A c \in ConnIds :
            conns'[c].state = "live" =>
               (AsBool(conns'[c]) <=> conns'[c].Event # Null /\ conns'[c].bActive)
       /\ last'.op = "AddEventListener" =>
             (AsBool(conns'[last'.c]) <=> last'.err = "OK")
       /\ \A c \in ConnIds : Disconnect(c) => ~AsBool(conns'[c])
       /\ \A from, to \in ConnIds :
            MoveConstruct(from, to) \/ MoveAssign(from, to) =>
               /\ ~AsBool(conns'[from])
               /\ conns'[to].Event = conns[from].Event
               /\ MoveConstruct(from, to) => (AsBool(conns'[to]) <=> AsBool(conns[from]))
       /\ \A c \in ConnIds :
            conns[c].state = "live" /\ ~AsBool(conns[c]) /\ AsBool(conns'[c]) =>
               /\ last'.op = "MoveAssign" /\ last'.c = c
               /\ \E from \in ConnIds \ {c} : conns[from].Event # Null
      ]_vars

\* A connected connection was moved into a new variable: the source still
\* has its active flag set but converts to false, the destination converts
\* to true and holds the registered delegate.
C19_Witness ==
    /\ last.op = "MoveConstruct"
    /\ AsBool(conns[last.c])
    /\ conns[last.c].Delegate \in Range(Delegates[conns[last.c].Event])
    /\ \E from \in ConnIds \ {last.c} :
          /\ conns[from].state = "live"
          /\ conns[from].bActive
          /\ ~AsBool(conns[from])

\* C20: DestroyAll empties every slot and leaves the events-blocked flag as
\* it was; on an empty slot a trigger returns FailedToMatchEventType when
\* events are not blocked and AddEventListener returns a connection carrying
\* FailedToMatchEventType, whatever signature is asked for; an empty slot
\* is filled by DeclareEvent on that id and by nothing else.
C20_DestroyAllEmptiesSlots ==
    [][/\ DestroyAll =>
            /\ \A id \in Ids : Events'[id] = Null
            /\ bEventsBlocked' = bEventsBlocked
       /\ \A id \in Ids :
            Events[id] = Null =>
               /\ \A sig \in Sigs, op \in MgrTriggerOps :
                     TriggerEvent(id, sig, op) /\ ~bEventsBlocked =>
                        /\ last'.err = "FailedToMatchEventType"
                        /\ last'.Results = <<>> /\ last'.fired = <<>>
               /\ \A sig \in Sigs, Prio \in Prios, dup \in BOOLEAN, c \in ConnIds :
                     AddEventListener(id, sig, Callable, Prio, dup, c) =>
                        /\ GetError(conns'[c]) = "FailedToMatchEventType"
                        /\ ~AsBool(conns'[c])
                        /\ Delegates' = Delegates
               /\ Events'[id] # Null => last'.op = "DeclareEvent" /\ last'.id = id
      ]_vars

\* After DestroyAll emptied the slots while a connection still held the
\* event that was declared, a trigger on an id returned
\* FailedToMatchEventType and the listener of the old event was not invoked.
C20_Witness ==
    /\ last.op \in MgrTriggerOps /\ last.err = "FailedToMatchEventType"
    /\ ~bEventsBlocked
    /\ \A id \in Ids : Events[id] = Null
    /\ conns["Conn0"].state = "live"
    /\ conns["Conn0"].Event # Null
    /\ Delegates[conns["Conn0"].Event] # <<>>
    /\ stack = <<>>

\* C21: an event's broadcasting flag is true exactly while a Trigger or
\* TriggerComplex of that event is in progress: at every point of the
\* iteration, also in an outer Trigger after a nested Trigger of the same
\* event has returned, and at no other time.
C21_FlagTrueWhileIterating ==
    \A e \in EventIds : bIsBroadcasting[e] <=> Iterating(e)

\* C22: when Disconnect returns on a connection that was connected, the
\* connection's delegate is in no event's sequence, from inside a listener
\* of the broadcasting event as from anywhere else, and it stays out: no
\* disconnected connection has its delegate registered, so no later Trigger
\* invokes it.
C22_DisconnectRemovesListener ==
    [][/\ \A c \in ConnIds :
            Disconnect(c) /\ AsBool(conns[c]) => Gone(conns[c], Delegates')
       /\ \A c \in ConnIds :
            conns'[c].state = "live" /\ conns'[c].Event # Null /\ ~conns'[c].bActive =>
               Gone(conns'[c], Delegates')
      ]_vars

\* C23: when a listener of one event triggers a different event, each
\* event's flag is true exactly while that event is being triggered, so the
\* outer event's flag stays true for the rest of its Trigger; every Trigger
\* invokes each of its listeners once, in order; adding to or removing from
\* an event that is being triggered is rejected, and adding to or removing
\* from the other event from inside a listener, before and after that
\* event's own trigger, is carried out.
C23_NestedOtherEventIndependent ==
    [][/\ \A e \in EventIds :
            bIsBroadcasting'[e] <=> \E k \in DOMAIN stack' : stack'[k].ev = e
       /\ last'.op \in TriggerOps /\ last'.ok =>
            /\ last'.intact
            /\ last'.fired = last'.snap
            /\ last'.op \in {"Trigger", "TriggerEvent"} =>
                  last'.Results = [i \in 1..Len(last'.snap) |-> Callee'[last'.snap[i]]]
       /\ \A Prio \in Prios :
            AddListener(StringEvent, Free, Prio, FALSE) =>
               IF Iterating(StringEvent)
               THEN last'.d = Null /\ Delegates' = Delegates
               ELSE /\ last'.d # Null
                    /\ Len(Delegates'[StringEvent]) = Len(Delegates[StringEvent]) + 1
       /\ \A d \in DelegateIds :
            RemoveListener(StringEvent, d) =>
               IF Iterating(StringEvent)
               THEN /\ last'.err = "ModifyingCallbackListDuringBroadcast"
                    /\ Delegates' = Delegates
               ELSE /\ last'.err = "OK"
                    /\ d \notin Range(Delegates'[StringEvent])
       /\ \A Prio \in Prios :
            AddEventListener("String", SigString, Callable, Prio, TRUE, "Conn2")
               /\ Events["String"] # Null =>
               IF Iterating(Events["String"])
               THEN /\ GetError(conns'["Conn2"]) = "ModifyingCallbackListDuringBroadcast"
                    /\ Delegates' = Delegates
               ELSE /\ AsBool(conns'["Conn2"])
                    /\ conns'["Conn2"].Delegate \in Range(Delegates'[Events["String"]])
      ]_vars

\* The listener of the event the caller holds is running after the trigger
\* it made of the Manager's event has returned, having invoked that event's
\* listener: the outer flag is still set and the inner one is cleared.
C23_Witness ==
    /\ Len(stack) = 1
    /\ stack[1].ev = StringEvent
    /\ last.op \in MgrTriggerOps /\ last.ok
    /\ last.fired # <<>>
    /\ bIsBroadcasting[StringEvent]
    /\ ~bIsBroadcasting[Events["String"]]

\* C24: which event a slot holds, and that event's signature, change only by
\* DeclareEvent on that id, made on an empty slot or with canReplace = true,
\* and by DestroyAll; AddEventListener, TriggerEvent, TriggerEventComplex,
\* BlockEvents and Disconnect leave every slot as it is; and DeclareEvent,
\* AddEventListener and the triggers on one id leave every other id's slot,
\* and the listeners of the event in it, as they are.
C24_SlotChangesOnlyByDeclareAndDestroyAll ==
    [][~crashed' =>
         /\ \A id \in Ids :
              \/ /\ Events'[id] = Events[id]
                 /\ Events[id] # Null => evSig'[Events[id]] = evSig[Events[id]]
              \/ DestroyAll
              \/ \E sig \in Sigs, CanReplace \in BOOLEAN :
                    /\ DeclareEvent(id, sig, CanReplace)
                    /\ Events[id] = Null \/ CanReplace
         /\ \/ \E b \in BOOLEAN : BlockEvents(b)
            \/ \E c \in ConnIds : Disconnect(c)
            \/ \E id \in Ids, sig \in Sigs, Prio \in Prios, dup \in BOOLEAN, c \in ConnIds :
                  AddEventListener(id, sig, Callable, Prio, dup, c)
            \/ \E id \in Ids, sig \in Sigs, op \in MgrTriggerOps : TriggerEvent(id, sig, op)
            \/ ListenerReturn
            => /\ Events' = Events
               /\ \A id \in Ids : Events[id] # Null => evSig'[Events[id]] = evSig[Events[id]]
         /\ \A id \in Ids : \A other \in Ids \ {id} :
              \/ \E sig \in Sigs, CanReplace \in BOOLEAN : DeclareEvent(id, sig, CanReplace)
              \/ \E sig \in Sigs, Prio \in Prios, dup \in BOOLEAN, c \in ConnIds :
                    AddEventListener(id, sig, Callable, Prio, dup, c)
              \/ \E sig \in Sigs, op \in MgrTriggerOps : TriggerEvent(id, sig, op)
              => /\ Events'[other] = Events[other]
                 /\ Events[other] # Null =>
                       /\ evSig'[Events[other]] = evSig[Events[other]]
                       /\ Delegates'[Events[other]] = Delegates[Events[other]]
      ]_vars

\* The "String" slot was given a new event by DeclareEvent while the "Void"
\* slot held an event with a listener, which it still holds.
C24_Witness ==
    /\ last.op = "DeclareEvent" /\ last.ok /\ last.id = "String"
    /\ Events["Void"] # Null
    /\ evSig[Events["Void"]] = SigVoid
    /\ Delegates[Events["Void"]] # <<>>
    /\ Events["String"] # Null

\* The connection's delegate is in the sequence of the event it refers to.
Registered(cn, D) == cn.Event # Null /\ cn.Delegate \in Range(D[cn.Event])

\* C25: a move construction (Connection or ScopedConnection, the conversion
\* of a Connection into a ScopedConnection included) and a Connection move
\* assignment hand the subscription to the destination: the moved-from
\* variable converts to false and the destination holds what the source
\* held, listener still registered; Disconnect and destruction of a variable
\* that refers to no event remove no listener; and a registered listener
\* leaves its event's sequence only when the variable that holds its
\* subscription is disconnected or, being a ScopedConnection, destroyed.
C25_SubscriptionHasOneOwner ==
    [][/\ \A from, to \in ConnIds :
            MoveConstruct(from, to) \/ (MoveAssign(from, to) /\ to \notin ScopedIds) =>
               /\ ~AsBool(conns'[from])
               /\ conns'[from].Event = Null
               /\ conns'[to].Event = conns[from].Event
               /\ conns'[to].Delegate = conns[from].Delegate
               /\ AsBool(conns'[to]) <=> AsBool(conns[from])
               /\ Registered(conns[from], Delegates) =>
                     conns'[to].Delegate \in Range(Delegates'[conns'[to].Event])
       /\ \A c \in ConnIds :
            (Disconnect(c) \/ DestroyConn(c)) /\ conns[c].Event = Null =>
               ~crashed' /\ Delegates' = Delegates
       /\ \A e \in EventIds, d \in DelegateIds :
            /\ d \in Range(Delegates[e])
            /\ d \notin Range(Delegates'[e])
            /\ evState'[e] = "alive"
            => \E c \in ConnIds :
                  /\ conns[c].Event = e /\ conns[c].Delegate = d /\ conns[c].bActive
                  /\ Disconnect(c) \/ (c \in ScopedIds /\ DestroyConn(c))
      ]_vars

\* A Connection was converted into a ScopedConnection and the moved-from
\* Connection was disconnected afterwards: the listener is still registered
\* and the ScopedConnection holds it.
C25_Witness ==
    /\ last.op = "Disconnect" /\ last.c = "Conn2"
    /\ conns["Conn2"].Event = Null
    /\ conns["Conn2"].Error = "OK"
    /\ AsBool(conns["Conn0"])
    /\ Registered(conns["Conn0"], Delegates)
    /\ nDelegates = 1

\* C26: a listener whose subscription a ScopedConnection holds is out of its
\* event's sequence once that ScopedConnection has been destroyed, the
\* event not broadcasting, however the subscription reached it; so when
\* every listener was added into a ScopedConnection and every
\* ScopedConnection has been destroyed, no event has a listener left,
\* move assignments between ScopedConnections included.
C26_ScopedDestructionRemovesListeners ==
    [][/\ \A c \in ScopedIds :
            DestroyConn(c) /\ Registered(conns[c], Delegates)
               /\ ~bIsBroadcasting[conns[c].Event] =>
               conns[c].Delegate \notin Range(Delegates'[conns[c].Event])
       /\ (\A c \in ScopedIds : conns'[c].state = "free") /\ stack' = <<>> =>
            \A e \in EventIds : Delegates'[e] = <<>>
      ]_vars

\* C27: whatever adds, triggers, disconnects, moves, move assignments,
\* declarations and destructions came before, a connection that converts
\* to true has its delegate in the sequence of the event it refers to.
C27_TrueConnectionIsRegistered ==
    \A c \in ConnIds :
        conns[c].state = "live" /\ AsBool(conns[c]) => Registered(conns[c], Delegates)

\* C28: a connection for which IsActive() returns true converts to true as
\* well, in every state and for moved-from connections too.
C28_IsActiveImpliesBool ==
    \A c \in ConnIds :
        conns[c].state = "live" /\ IsActive(conns[c]) => AsBool(conns[c])

====
